---- MODULE Spec2Model ----
(***************************************************************************)
(* hilite: a streaming highlighter.  A configuration file (which may       *)
(* include other configuration files) yields an ordered rule list; the     *)
(* rules are compiled into one alternation of named groups r0, r1, ...;    *)
(* every input line is scanned once and each match is wrapped in the ANSI  *)
(* color of its rule.                                                      *)
(*                                                                         *)
(* Text is a sequence of one-character strings.  An output buffer is a     *)
(* sequence whose elements are either one input character or one whole     *)
(* escape sequence ("ESC" stands for the byte 0x1b).  Offsets into a line  *)
(* are 0-based, as in the source.                                          *)
(***************************************************************************)
EXTENDS Naturals, Sequences, FiniteSets, TLC

\* ------------------------------------------------------------------ helpers

Last(s) == s[Len(s)]

\* input[from..to] of the source: the characters at offsets from .. to-1
Slice(s, from, to) == SubSeq(s, from + 1, to)

RECURSIVE Concat(_)
Concat(ss) == IF ss = <<>> THEN <<>> ELSE Head(ss) \o Concat(Tail(ss))

RECURSIVE SeqsUpTo(_, _)
SeqsUpTo(S, n) ==
  IF n = 0 THEN {<<>>}
  ELSE LET shorter == SeqsUpTo(S, n - 1)
       IN  shorter \cup {Append(q, x) : q \in {r \in shorter : Len(r) = n - 1}, x \in S}

Digit(d) ==
  CASE d = 0 -> "0" [] d = 1 -> "1" [] d = 2 -> "2" [] d = 3 -> "3" [] d = 4 -> "4"
    [] d = 5 -> "5" [] d = 6 -> "6" [] d = 7 -> "7" [] d = 8 -> "8" [] d = 9 -> "9"

\* the decimal text of a number, as "{}" formats it
RECURSIVE Dec(_)
Dec(n) == IF n < 10 THEN Digit(n) ELSE Dec(n \div 10) \o Digit(n % 10)

\* ------------------------------------------------------------ rules, colors

PresetColor == {"Red", "Yellow", "Blue", "Green", "Cyan", "Magenta"}

Preset(p) == [kind |-> "Preset", p |-> p, r |-> 0, g |-> 0, b |-> 0]
RGB(r, g, b) == [kind |-> "RGB", p |-> "", r |-> r, g |-> g, b |-> b]

to_ansi(color) ==
  IF color.kind = "Preset"
  THEN CASE color.p = "Red"     -> "ESC[31m"
         [] color.p = "Yellow"  -> "ESC[33m"
         [] color.p = "Blue"    -> "ESC[34m"
         [] color.p = "Green"   -> "ESC[32m"
         [] color.p = "Cyan"    -> "ESC[36m"
         [] color.p = "Magenta" -> "ESC[35m"
  ELSE "ESC[38;2;" \o Dec(color.r) \o ";" \o Dec(color.g) \o ";" \o Dec(color.b) \o "m"

RESET == "ESC[0m"

Rule(keyword, color, is_regex) ==
  [keyword |-> keyword, color |-> color, is_regex |-> is_regex]

\* --------------------------------------------- the regex crate, as it is used

\* the pattern characters with a meaning of their own in the modelled syntax
Meta == {"|", "(", ")", "\\"}

\* regex::escape: a backslash before every meta character
RECURSIVE escape(_)
escape(text) ==
  IF text = <<>> THEN <<>>
  ELSE (IF Head(text) \in Meta THEN <<"\\", Head(text)>> ELSE <<Head(text)>>)
       \o escape(Tail(text))

\* format!("(?P<r{}>", i): the opening of the named group of rule i
GroupOpen(i) == "(?P<r" \o Dec(i) \o ">"

\* format!(r"(?P<r{}>{})", i, pat)
GroupPattern(i, pat) == <<GroupOpen(i)>> \o pat \o <<")">>

RECURSIVE join(_, _)
join(patterns, sep) ==
  IF patterns = <<>> THEN <<>>
  ELSE IF Len(patterns) = 1 THEN patterns[1]
  ELSE patterns[1] \o <<sep>> \o join(Tail(patterns), sep)

\* Syntax trees of the modelled subset: literals, escapes, alternation,
\* concatenation, unnamed groups and the named groups (?P<rN>...).
Empty == [t |-> "empty"]
Lit(c) == [t |-> "lit", c |-> c]
Cat(xs) == IF xs = <<>> THEN Empty ELSE IF Len(xs) = 1 THEN xs[1] ELSE [t |-> "cat", xs |-> xs]
Alt(xs) == IF Len(xs) = 1 THEN xs[1] ELSE [t |-> "alt", xs |-> xs]
Grp(name, e) == [t |-> "grp", name |-> name, e |-> e]

ParseOk(node, i) == [ok |-> TRUE, node |-> node, i |-> i]
ParseErr(i) == [ok |-> FALSE, node |-> Empty, i |-> i]

\* the rule number of a named-group opening, -1 for a plain "("
GroupName(tok, n) ==
  IF \E k \in 0..n : GroupOpen(k) = tok
  THEN CHOOSE k \in 0..n : GroupOpen(k) = tok
  ELSE 0 - 1

IsGroupOpen(tok, n) == tok = "(" \/ \E k \in 0..n : GroupOpen(k) = tok

RECURSIVE ParseAlt(_, _), ParseAltRest(_, _, _), ParseConcatRest(_, _, _), ParseAtom(_, _)

ParseAlt(toks, i) ==
  LET first == ParseConcatRest(toks, i, <<>>)
  IN  IF first.ok THEN ParseAltRest(toks, first.i, <<first.node>>) ELSE first

ParseAltRest(toks, i, acc) ==
  IF i <= Len(toks) /\ toks[i] = "|"
  THEN LET nx == ParseConcatRest(toks, i + 1, <<>>)
       IN  IF nx.ok THEN ParseAltRest(toks, nx.i, Append(acc, nx.node)) ELSE nx
  ELSE ParseOk(Alt(acc), i)

ParseConcatRest(toks, i, acc) ==
  IF i > Len(toks) \/ toks[i] \in {"|", ")"}
  THEN ParseOk(Cat(acc), i)
  ELSE LET a == ParseAtom(toks, i)
       IN  IF a.ok THEN ParseConcatRest(toks, a.i, Append(acc, a.node)) ELSE a

ParseAtom(toks, i) ==
  LET tok == toks[i]
  IN  IF tok = "\\"
      THEN IF i + 1 <= Len(toks) /\ toks[i + 1] \in Meta
           THEN ParseOk(Lit(toks[i + 1]), i + 2)
           ELSE ParseErr(i)
      ELSE IF IsGroupOpen(tok, Len(toks))
      THEN LET inner == ParseAlt(toks, i + 1)
           IN  IF ~inner.ok THEN inner
               ELSE IF inner.i <= Len(toks) /\ toks[inner.i] = ")"
               THEN ParseOk(Grp(GroupName(tok, Len(toks)), inner.node), inner.i + 1)
               ELSE ParseErr(inner.i)
      ELSE ParseOk(Lit(tok), i + 1)

\* the parse of a whole pattern: an error on an unclosed group, on a ")" that
\* closes nothing and on a dangling backslash
Parse(toks) ==
  LET r == ParseAlt(toks, 1)
  IN  IF r.ok /\ r.i = Len(toks) + 1 THEN r ELSE ParseErr(r.i)

Fold(c) == CASE c = "A" -> "a" [] c = "B" -> "b" [] OTHER -> c

CharEq(c, d, ic) == c = d \/ (ic /\ Fold(c) = Fold(d))

\* All the ways `node` matches s from offset pos, in the order of preference
\* of a leftmost-first engine (an earlier alternative before a later one);
\* each with the named groups that took part.
RECURSIVE M(_, _, _, _, _), MAlt(_, _, _, _, _, _), MCat(_, _, _, _, _, _),
          MThen(_, _, _, _, _, _), MGroup(_, _, _)

M(node, s, pos, caps, ic) ==
  CASE node.t = "empty" -> <<[end |-> pos, caps |-> caps]>>
    [] node.t = "lit" ->
         IF pos < Len(s) /\ CharEq(s[pos + 1], node.c, ic)
         THEN <<[end |-> pos + 1, caps |-> caps]>>
         ELSE <<>>
    [] node.t = "alt" -> MAlt(node.xs, 1, s, pos, caps, ic)
    [] node.t = "cat" -> MCat(node.xs, 1, s, pos, caps, ic)
    [] node.t = "grp" -> MGroup(node.name, pos, M(node.e, s, pos, caps, ic))

MAlt(xs, k, s, pos, caps, ic) ==
  IF k > Len(xs) THEN <<>>
  ELSE M(xs[k], s, pos, caps, ic) \o MAlt(xs, k + 1, s, pos, caps, ic)

MCat(xs, k, s, pos, caps, ic) ==
  IF k > Len(xs) THEN <<[end |-> pos, caps |-> caps]>>
  ELSE MThen(M(xs[k], s, pos, caps, ic), 1, xs, k, s, ic)

MThen(rs, j, xs, k, s, ic) ==
  IF j > Len(rs) THEN <<>>
  ELSE MCat(xs, k + 1, s, rs[j].end, rs[j].caps, ic) \o MThen(rs, j + 1, xs, k, s, ic)

MGroup(name, pos, rs) ==
  IF rs = <<>> THEN <<>>
  ELSE <<[end |-> Head(rs).end,
          caps |-> IF name >= 0
                   THEN (name :> <<pos, Head(rs).end>>) @@ Head(rs).caps
                   ELSE Head(rs).caps]>>
       \o MGroup(name, pos, Tail(rs))

NoCaps == <<>>

NoMatch == [found |-> FALSE, start |-> 0, end |-> 0, caps |-> NoCaps]

\* the leftmost match starting at offset `from` or later
RECURSIVE Find(_, _, _)
Find(re, s, from) ==
  IF from > Len(s) THEN NoMatch
  ELSE LET rs == M(re.ast, s, from, NoCaps, re.ic)
       IN  IF rs # <<>>
           THEN [found |-> TRUE, start |-> from, end |-> rs[1].end, caps |-> rs[1].caps]
           ELSE Find(re, s, from + 1)

\* Regex::captures_iter: successive non-overlapping matches; an empty match
\* that ends where the previous match ended is not reported, the search is
\* taken up one character further.  last = -1 before the first match.
RECURSIVE CapturesFrom(_, _, _, _)
CapturesFrom(re, s, from, last) ==
  LET m1 == Find(re, s, from)
      m  == IF m1.found /\ m1.start = m1.end /\ m1.end = last
            THEN Find(re, s, from + 1)
            ELSE m1
  IN  IF ~m.found THEN <<>>
      ELSE <<m>> \o CapturesFrom(re, s, m.end, m.end)

captures_iter(re, s) == CapturesFrom(re, s, 0, 0 - 1)

\* Captures::name(&format!("r{}", i))
CapName(m, i) == i \in DOMAIN m.caps

\* ------------------------------------------------------- HighlightingEngine

\* the pattern of one rule: a regex keyword as written, a literal one escaped
RulePattern(rule) == IF rule.is_regex THEN rule.keyword ELSE escape(rule.keyword)

\* patterns[i] of HighlightingEngine::new (rule i is rules[i + 1] here)
Patterns(rules) == [i \in 1..Len(rules) |-> GroupPattern(i - 1, RulePattern(rules[i]))]

\* ansi_colors of HighlightingEngine::new
AnsiColors(rules) == [i \in 1..Len(rules) |-> to_ansi(rules[i].color)]

\* RegexBuilder::new(..).case_insensitive(ignore_case).build()
Build(pattern, ignore_case) ==
  LET p == Parse(pattern)
  IN  [ok |-> p.ok, ast |-> p.node, ic |-> ignore_case]

NoEngine == [ok |-> FALSE, regex |-> [ast |-> Empty, ic |-> FALSE], ansi_colors |-> <<>>]

\* HighlightingEngine::new: Err (ok = FALSE) when the combined pattern is invalid
new(rules, ignore_case) ==
  LET combined_re == Build(join(Patterns(rules), "|"), ignore_case)
  IN  IF combined_re.ok
      THEN [ok |-> TRUE,
            regex |-> [ast |-> combined_re.ast, ic |-> combined_re.ic],
            ansi_colors |-> AnsiColors(rules)]
      ELSE NoEngine

\* the rule whose group is found first by the loop over ansi_colors
\* (0-based; Len(ansi_colors) when no group r_i took part in the match)
RECURSIVE FirstGroup(_, _, _)
FirstGroup(m, i, n) ==
  IF i >= n THEN n
  ELSE IF CapName(m, i) THEN i
  ELSE FirstGroup(m, i + 1, n)

\* what one iteration of the loop over captures_iter pushes for match m
Colored(self, input, m) ==
  LET n == Len(self.ansi_colors)
      i == FirstGroup(m, 0, n)
  IN  IF i < n
      THEN <<self.ansi_colors[i + 1]>>
           \o Slice(input, m.caps[i][1], m.caps[i][2])
           \o <<RESET>>
      ELSE <<>>

\* a rendering that leaves out the text after the last match
RECURSIVE RenderMatchesNoTail(_, _, _, _, _)
RenderMatchesNoTail(self, input, ms, k, last_match) ==
  IF k > Len(ms) THEN <<>>
  ELSE Slice(input, last_match, ms[k].start)
       \o Colored(self, input, ms[k])
       \o RenderMatchesNoTail(self, input, ms, k + 1, ms[k].end)

RECURSIVE RenderMatches(_, _, _, _, _)
RenderMatches(self, input, ms, k, last_match) ==
  IF k > Len(ms) THEN Slice(input, last_match, Len(input))
  ELSE Slice(input, last_match, ms[k].start)
       \o Colored(self, input, ms[k])
       \o RenderMatches(self, input, ms, k + 1, ms[k].end)

\* a rendering that appends to what the buffer held
render_line_no_clear(self, input, output) ==
  output \o RenderMatches(self, input, captures_iter(self.regex, input), 1, 0)

\* HighlightingEngine::render_line: the content of `output` after the call
render_line(self, input, output) ==
  LET cleared == <<>>
  IN  cleared \o RenderMatches(self, input, captures_iter(self.regex, input), 1, 0)

\* ------------------------------------------------------------ the file system

\* A path is its sequence of components, relative to the working directory.
\* The configuration files that exist, by canonical path, and the directories.
FileA == <<"a">>
FileB == <<"b">>
FileC == <<"s", "c">>
FileBad == <<"bad">>
FileLocked == <<"locked">>
Files == {FileA, FileB, FileC, FileBad, FileLocked}
Dirs == {<<>>, <<"s">>}

\* Path::parent
parent(path) == IF path = <<>> THEN <<>> ELSE SubSeq(path, 1, Len(path) - 1)

\* Path::join of a relative path
path_join(dir, rel) == dir \o rel

\* The file a path leads to: ".." is resolved against an existing directory
\* and the result must exist; ok = FALSE when the path leads nowhere
RECURSIVE Normalize(_, _)
Normalize(path, acc) ==
  IF path = <<>> THEN [ok |-> acc \in Files, path |-> acc]
  ELSE IF Head(path) = ".."
  THEN IF acc # <<>> /\ acc \in Dirs
       THEN Normalize(Tail(path), parent(acc))
       ELSE [ok |-> FALSE, path |-> acc]
  ELSE Normalize(Tail(path), Append(acc, Head(path)))

Resolve(path) == Normalize(path, <<>>)

\* a loader that keeps the path as written instead of the canonical one
canonicalize_as_written(path) == [ok |-> Resolve(path).ok, path |-> path]

\* fs::canonicalize: the canonical path of the file, Err when there is none
canonicalize(path) == Resolve(path)

VARIABLES
  fs,          \* canonical path -> what the file holds
  cli_args,    \* the CliArgs given to run
  pc,          \* where the program is
  err,         \* the error run (or the load) returned, "" when none
  loaded,      \* load_rules_recursive: the HashSet of canonical paths
  stack,       \* the active calls of load_rules_recursive, innermost last
  raw_rules,   \* the rule list the load returned
  reads,       \* the canonical paths handed to fs::read_to_string, in order
  engine,      \* the HighlightingEngine
  reader,      \* the input not yet read
  line_buffer,
  out_buffer,
  reused,      \* the buffer handed to the last render_line was not empty
  lines,       \* the lines read_line has returned, in order
  handed,      \* the buffers handed to write_all, in order
  sink         \* the bytes the writer has accepted

vars == <<fs, cli_args, pc, err, loaded, stack, raw_rules, reads, engine, reader,
          line_buffer, out_buffer, reused, lines, handed, sink>>

loadVars == <<loaded, stack, raw_rules, reads>>
streamVars == <<reader, line_buffer, out_buffer, reused, lines, handed, sink>>

\* ---------------------------------------------------------------- the loader

\* FileConfig as parsed: a missing include or rules key is an empty list here
FileConfig(include, rules) == [kind |-> "config", include |-> include, rules |-> rules]
Garbage == [kind |-> "garbage", include |-> <<>>, rules |-> <<>>]
Unreadable == [kind |-> "unreadable", include |-> <<>>, rules |-> <<>>]

Frame(path, config) ==
  [path |-> path, includes |-> config.include, all_rules |-> <<>>, rules |-> config.rules]

\* Lines 90-98 of load_rules_recursive(path, ld): the canonical path, the
\* insertion into the set, the read and the parse.
\*   "io" / "parse": the ? of line 90, 96 or 97 returns the error
\*   "visited":      line 93 returns Ok(vec![])
\*   "enter":        the document is parsed and its includes are next
Call(path, ld) ==
  LET c == canonicalize(path)
      file == Resolve(path).path
      text == fs[file]
  IN  IF ~c.ok
      THEN [kind |-> "io", ld |-> ld, read |-> <<>>, frame |-> Frame(path, Garbage)]
      ELSE IF c.path \in ld
      THEN [kind |-> "visited", ld |-> ld, read |-> <<>>, frame |-> Frame(path, Garbage)]
      ELSE IF text.kind = "unreadable"
      THEN [kind |-> "io", ld |-> ld \cup {c.path}, read |-> <<file>>,
            frame |-> Frame(path, Garbage)]
      ELSE IF text.kind = "garbage"
      THEN [kind |-> "parse", ld |-> ld \cup {c.path}, read |-> <<file>>,
            frame |-> Frame(path, Garbage)]
      ELSE [kind |-> "enter", ld |-> ld \cup {c.path}, read |-> <<file>>,
            frame |-> Frame(path, text)]

\* a loader that takes a document it cannot load for an empty one
AfterCallSkipsBad(below, path, ld) ==
  LET c == Call(path, ld)
  IN  /\ loaded' = c.ld
      /\ reads' = reads \o c.read
      /\ IF c.kind = "enter"
         THEN /\ stack' = Append(below, c.frame)
              /\ pc' = "loading"
              /\ UNCHANGED <<err, raw_rules>>
         ELSE /\ stack' = below
              /\ pc' = IF below = <<>> THEN "loaded" ELSE "loading"
              /\ UNCHANGED <<err, raw_rules>>

\* the state after the call load_rules_recursive(path, ld) made below `below`
AfterCall(below, path, ld) ==
  LET c == Call(path, ld)
  IN  /\ loaded' = c.ld
      /\ reads' = reads \o c.read
      /\ CASE c.kind = "enter" ->
                /\ stack' = Append(below, c.frame)
                /\ pc' = "loading"
                /\ UNCHANGED <<err, raw_rules>>
           [] c.kind = "visited" ->
                \* Ok(vec![]) is appended to the caller's all_rules
                /\ stack' = below
                /\ pc' = IF below = <<>> THEN "loaded" ELSE "loading"
                /\ UNCHANGED <<err, raw_rules>>
           [] OTHER ->
                \* every caller's ? passes the error on: nothing is returned
                /\ stack' = <<>>
                /\ pc' = "error"
                /\ err' = c.kind
                /\ UNCHANGED raw_rules

\* load_rules_from_file(path): a fresh set, then the first call
load_rules_from_file(path) ==
  /\ pc = "start"
  /\ AfterCall(<<>>, path, {})
  /\ UNCHANGED <<fs, cli_args, engine, streamVars>>

\* one iteration of the loop over includes (lines 102-105) in the innermost call
LoadInclude ==
  /\ pc = "loading"
  /\ Last(stack).includes # <<>>
  /\ LET top == Last(stack)
         parent_dir == parent(top.path)
         full_path == path_join(parent_dir, Head(top.includes))
         rest == [top EXCEPT !.includes = Tail(top.includes)]
     IN  AfterCall([stack EXCEPT ![Len(stack)] = rest], full_path, loaded)
  /\ UNCHANGED <<fs, cli_args, engine, streamVars>>

\* a return that puts the own rules before the included ones
LoadReturnOwnFirst ==
  /\ pc = "loading"
  /\ Last(stack).includes = <<>>
  /\ LET top == Last(stack)
         result == top.rules \o top.all_rules
         below == SubSeq(stack, 1, Len(stack) - 1)
     IN  IF below = <<>>
         THEN /\ raw_rules' = result
              /\ stack' = <<>>
              /\ pc' = "loaded"
         ELSE /\ stack' = [below EXCEPT ![Len(below)].all_rules = @ \o result]
              /\ UNCHANGED <<raw_rules, pc>>
  /\ UNCHANGED <<fs, cli_args, err, loaded, reads, engine, streamVars>>

\* lines 108-112: the own rules go after the included ones and the call returns
LoadReturn ==
  /\ pc = "loading"
  /\ Last(stack).includes = <<>>
  /\ LET top == Last(stack)
         result == top.all_rules \o top.rules
         below == SubSeq(stack, 1, Len(stack) - 1)
     IN  IF below = <<>>
         THEN /\ raw_rules' = result
              /\ stack' = <<>>
              /\ pc' = "loaded"
         ELSE /\ stack' = [below EXCEPT ![Len(below)].all_rules = @ \o result]
              /\ UNCHANGED <<raw_rules, pc>>
  /\ UNCHANGED <<fs, cli_args, err, loaded, reads, engine, streamVars>>

\* --------------------------------------------------------------------- run

None == [some |-> FALSE, path |-> <<>>]
Some(path) == [some |-> TRUE, path |-> path]

CliArgs(config, ignore_case, file) ==
  [config |-> config, ignore_case |-> ignore_case, file |-> file]

\* lines 180-183: the missing --config is an error before anything is read;
\* otherwise the load begins
RunStart(args) ==
  /\ pc = "start"
  /\ cli_args' = args
  /\ IF args.config.some
     THEN AfterCall(<<>>, args.config.path, {})
     ELSE /\ pc' = "error"
          /\ err' = "usage"
          /\ UNCHANGED loadVars
  /\ UNCHANGED <<fs, engine, streamVars>>

\* line 186: the engine is compiled from the loaded rules, or run returns
Compile ==
  /\ pc = "loaded"
  /\ LET e == new(raw_rules, cli_args.ignore_case)
     IN  IF e.ok
         THEN engine' = e /\ pc' = "compiled" /\ UNCHANGED err
         ELSE pc' = "error" /\ err' = "compile" /\ UNCHANGED engine
  /\ UNCHANGED <<fs, cli_args, loadVars, streamVars>>

\* lines 189-200: the writer over stdout, then the input: the named file or
\* stdin, holding `input`
OpenInput(input) ==
  /\ pc = "compiled"
  /\ reader' = input
  /\ pc' = "streaming"
  /\ UNCHANGED <<fs, cli_args, err, loadVars, engine, line_buffer, out_buffer,
                 reused, lines, handed, sink>>

\* line 194: the input file cannot be opened
OpenFail ==
  /\ pc = "compiled"
  /\ cli_args.file.some
  /\ pc' = "error"
  /\ err' = "open"
  /\ UNCHANGED <<fs, cli_args, loadVars, engine, streamVars>>

\* BufRead::read_line: the number of characters up to and including the first
\* line feed, or all that is left
RECURSIVE LineLen(_)
LineLen(text) ==
  IF text = <<>> THEN 0
  ELSE IF Head(text) = "\n" THEN 1
  ELSE 1 + LineLen(Tail(text))

\* an iteration that does not clear line_buffer
StreamLineKeepsLine ==
  /\ pc = "streaming"
  /\ reader # <<>>
  /\ LET n == LineLen(reader)
         line == line_buffer \o SubSeq(reader, 1, n)
         out == render_line(engine, line, out_buffer)
     IN  /\ reader' = SubSeq(reader, n + 1, Len(reader))
         /\ out_buffer' = out
         /\ reused' = (out_buffer # <<>>)
         /\ lines' = Append(lines, line)
         /\ handed' = Append(handed, out)
         /\ sink' = sink \o out
         /\ line_buffer' = line
  /\ UNCHANGED <<fs, cli_args, pc, err, loadVars, engine>>

\* the loop of process_stream, one iteration that succeeds: read_line appends
\* the next line to line_buffer, the line is rendered and written, and
\* line_buffer is cleared
StreamLine ==
  /\ pc = "streaming"
  /\ reader # <<>>
  /\ LET n == LineLen(reader)
         line == line_buffer \o SubSeq(reader, 1, n)
         out == render_line(engine, line, out_buffer)
     IN  /\ reader' = SubSeq(reader, n + 1, Len(reader))
         /\ out_buffer' = out
         /\ reused' = (out_buffer # <<>>)
         /\ lines' = Append(lines, line)
         /\ handed' = Append(handed, out)
         /\ sink' = sink \o out
         /\ line_buffer' = <<>>
  /\ UNCHANGED <<fs, cli_args, pc, err, loadVars, engine>>

\* read_line fails: the ? of line 216 returns the error
StreamReadFail ==
  /\ pc = "streaming"
  /\ pc' = "error"
  /\ err' = "read"
  /\ UNCHANGED <<fs, cli_args, loadVars, engine, streamVars>>

\* write_all fails after the writer accepted the first k bytes of the line
StreamWriteFail(k) ==
  /\ pc = "streaming"
  /\ reader # <<>>
  /\ LET n == LineLen(reader)
         line == line_buffer \o SubSeq(reader, 1, n)
         out == render_line(engine, line, out_buffer)
     IN  /\ k < Len(out)
         /\ reader' = SubSeq(reader, n + 1, Len(reader))
         /\ line_buffer' = line
         /\ out_buffer' = out
         /\ reused' = (out_buffer # <<>>)
         /\ lines' = Append(lines, line)
         /\ handed' = Append(handed, out)
         /\ sink' = sink \o SubSeq(out, 1, k)
  /\ pc' = "error"
  /\ err' = "write"
  /\ UNCHANGED <<fs, cli_args, loadVars, engine>>

\* read_line returns 0: process_stream returns Ok, the writer is flushed
StreamEnd ==
  /\ pc = "streaming"
  /\ reader = <<>>
  /\ pc' = "done"
  /\ UNCHANGED <<fs, cli_args, err, loadVars, engine, streamVars>>

\* line 203: the flush of the writer fails
FlushFail ==
  /\ pc = "streaming"
  /\ reader = <<>>
  /\ pc' = "error"
  /\ err' = "flush"
  /\ UNCHANGED <<fs, cli_args, loadVars, engine, streamVars>>

\* HighlightingEngine::render_line called with a buffer the caller reuses
RenderCall(input) ==
  /\ pc \in {"compiled", "rendered"}
  /\ line_buffer' = input
  /\ out_buffer' = render_line(engine, input, out_buffer)
  /\ reused' = (out_buffer # <<>>)
  /\ pc' = "rendered"
  /\ UNCHANGED <<fs, cli_args, err, loadVars, engine, reader, lines, handed, sink>>

\* ------------------------------------------------------------------ inputs

MaxEdges == 3      \* include entries in all the documents together (loader)
RunEdges == 2      \* the same, for whole runs
MaxRules == 2      \* rules in a list drawn from RulePool
MaxLineLen == 2    \* characters of a line over LineAlphabet
MaxInputLen == 4   \* characters of an input stream over InputAlphabet

\* rules of every kind: literal and regex, overlapping, matching the empty
\* string, a meta character to escape, an unbalanced fragment, upper case
RuleA == Rule(<<"a">>, Preset("Red"), FALSE)
RuleAorAB == Rule(<<"a", "|", "a", "b">>, Preset("Blue"), TRUE)
RuleAb == Rule(<<"A", "b">>, Preset("Yellow"), FALSE)
RuleEmpty == Rule(<<>>, Preset("Green"), FALSE)
RuleBar == Rule(<<"|">>, RGB(255, 0, 10), FALSE)
RuleSplit == Rule(<<"a", ")", "|", "(", "b">>, Preset("Magenta"), TRUE)
RuleOpen == Rule(<<"(">>, Preset("Cyan"), TRUE)

RulePool == {RuleA, RuleAorAB, RuleAb, RuleEmpty, RuleSplit}

\* the rule lists of the scenarios of the specification, and one whose
\* fragments close and reopen groups across rules
RuleERROR == Rule(<<"E", "R", "R", "O", "R">>, Preset("Red"), FALSE)
RuleWARN == Rule(<<"W", "A", "R", "N">>, Preset("Yellow"), FALSE)
RuleAB == Rule(<<"a", "b">>, RGB(0, 128, 255), FALSE)
RuleCD == Rule(<<"c", "d">>, Preset("Blue"), FALSE)
RuleX == Rule(<<"x", ")", "|", "(", "(", "y">>, Preset("Cyan"), TRUE)
RuleZ == Rule(<<"z", ")", ")", "(", "c">>, Preset("Green"), TRUE)
LogRules == <<RuleERROR, RuleWARN>>
AdjacentRules == <<RuleAB, RuleCD>>
NestedRules == <<RuleX, RuleA, RuleAB, RuleZ>>

RuleLists ==
  SeqsUpTo(RulePool, MaxRules)
  \cup {LogRules, AdjacentRules, NestedRules, <<RuleBar, RuleA>>, <<RuleOpen>>, <<RuleA, RuleOpen>>}

LineAlphabet == {"a", "b"}
LogLine == <<"E", "R", "R", "O", "R", ":", " ", "W", "A", "R", "N", ":", " ", "o", "k", "\n">>
ExampleLines == {LogLine, <<"a", "b", "c", "d">>, <<"a", "|", "b">>, <<"A", "b", "\n">>,
                 <<"a", "b", "c", "a">>, <<"a", "a", "b">>, <<"b", "a", "b">>}
Lines == SeqsUpTo(LineAlphabet, MaxLineLen) \cup ExampleLines

InputAlphabet == {"a", "b", "\n"}
Inputs == SeqsUpTo(InputAlphabet, MaxInputLen)
StreamRuleLists == {<<RuleA>>, <<RuleAorAB, RuleEmpty>>, <<RuleSplit>>}

\* the include entries a document may hold: <<document, reference>>
EdgeChoices ==
  {<<FileA, ref>> : ref \in {<<"b">>, <<"s", "c">>, <<"s", "..", "b">>, <<"a">>,
                             <<"bad">>, <<"locked">>, <<"x">>}}
  \cup {<<FileB, ref>> : ref \in {<<"a">>, <<"s", "c">>}}
  \cup {<<FileC, ref>> : ref \in {<<"..", "a">>, <<"c">>, <<"..", "b">>}}

\* the include list of document f: its entries, in order
RECURSIVE IncludesOf(_, _)
IncludesOf(edges, f) ==
  IF edges = <<>> THEN <<>>
  ELSE (IF Head(edges)[1] = f THEN <<Head(edges)[2]>> ELSE <<>>)
       \o IncludesOf(Tail(edges), f)

\* the own rules of the documents: one color per document
PlainRules ==
  (FileA :> <<Rule(<<"a", "b">>, Preset("Blue"), FALSE), Rule(<<"b">>, Preset("Cyan"), FALSE)>>)
  @@ (FileB :> <<Rule(<<"a">>, Preset("Red"), FALSE)>>)
  @@ (FileC :> <<Rule(<<"b">>, Preset("Green"), FALSE)>>)
  @@ (FileBad :> <<>>) @@ (FileLocked :> <<>>)

\* b closes its group early and leaves one open; a closes it
NestedFileRules ==
  (FileA :> <<RuleAB, RuleZ>>) @@ (FileB :> <<RuleX, RuleA>>)
  @@ (FileC :> <<>>) @@ (FileBad :> <<>>) @@ (FileLocked :> <<>>)

RuleAssignments == {PlainRules, NestedFileRules}

FsOf(edges, rulesOf) ==
  [f \in Files |->
     IF f = FileBad THEN Garbage
     ELSE IF f = FileLocked THEN Unreadable
     ELSE FileConfig(IncludesOf(edges, f), rulesOf[f])]

RootPaths == {FileA, FileB, FileC, <<"x">>}

ArgsSet ==
  {CliArgs(config, FALSE, None) : config \in {None, Some(FileA), Some(FileB), Some(FileC)}}
  \cup {CliArgs(Some(FileA), TRUE, Some(<<"in">>))}

RunInputs == {<<"a", "b", "c", "\n", "a", "b">>, <<>>}

\* ----------------------------------------------------------- specifications

NoArgs == CliArgs(None, FALSE, None)

Fresh ==
  /\ err = ""
  /\ engine = NoEngine
  /\ reader = <<>>
  /\ line_buffer = <<>>
  /\ out_buffer = <<>>
  /\ reused = FALSE
  /\ lines = <<>>
  /\ handed = <<>>
  /\ sink = <<>>

\* before run is called
Init ==
  /\ \E edges \in SeqsUpTo(EdgeChoices, RunEdges), rulesOf \in RuleAssignments :
       fs = FsOf(edges, rulesOf)
  /\ cli_args = NoArgs
  /\ pc = "start"
  /\ loaded = {}
  /\ stack = <<>>
  /\ raw_rules = <<>>
  /\ reads = <<>>
  /\ Fresh

Next ==
  \/ \E args \in ArgsSet : RunStart(args)
  \/ LoadInclude
  \/ LoadReturn
  \/ Compile
  \/ \E input \in RunInputs : OpenInput(input)
  \/ OpenFail
  \/ StreamLine
  \/ StreamReadFail
  \/ \E k \in 0..2 : StreamWriteFail(k)
  \/ StreamEnd
  \/ FlushFail

Spec == Init /\ [][Next]_vars

\* the loader alone: load_rules_from_file on every small include graph
InitLoad ==
  /\ \E edges \in SeqsUpTo(EdgeChoices, MaxEdges) : fs = FsOf(edges, PlainRules)
  /\ cli_args = NoArgs
  /\ pc = "start"
  /\ loaded = {}
  /\ stack = <<>>
  /\ raw_rules = <<>>
  /\ reads = <<>>
  /\ Fresh

NextLoad ==
  \/ \E path \in RootPaths : load_rules_from_file(path)
  \/ LoadInclude
  \/ LoadReturn

SpecLoad == InitLoad /\ [][NextLoad]_vars /\ WF_vars(NextLoad)

\* the state in which run has loaded `rules` from a configuration without includes
Loaded(rules, args) ==
  /\ fs = FsOf(<<>>, [f \in Files |-> IF f = FileA THEN rules ELSE <<>>])
  /\ cli_args = args
  /\ pc = "loaded"
  /\ loaded = {FileA}
  /\ stack = <<>>
  /\ raw_rules = rules
  /\ reads = <<FileA>>
  /\ Fresh

\* the engine alone: every rule list compiled, every line rendered, the
\* output buffer reused from one call to the next
InitRender ==
  \E rules \in RuleLists, ignore_case \in BOOLEAN :
    Loaded(rules, CliArgs(Some(FileA), ignore_case, None))

NextRender ==
  \/ Compile
  \/ \E input \in Lines : RenderCall(input)

SpecRender == InitRender /\ [][NextRender]_vars

\* process_stream on every small input
InitStream ==
  \E rules \in StreamRuleLists, file \in {None, Some(<<"in">>)} :
    Loaded(rules, CliArgs(Some(FileA), FALSE, file))

NextStream ==
  \/ Compile
  \/ \E input \in Inputs : OpenInput(input)
  \/ OpenFail
  \/ StreamLine
  \/ StreamReadFail
  \/ \E k \in 0..MaxInputLen : StreamWriteFail(k)
  \/ StreamEnd
  \/ FlushFail

SpecStream == InitStream /\ [][NextStream]_vars

\* ------------------------------------------------- the include graph, C1, C2

\* the document an include entry of document f names
Target(f, ref) == Resolve(path_join(parent(f), ref))

IsConfig(f) == fs[f].kind = "config"

\* the documents f includes, in the order of its include list
Targets(f) == [i \in 1..Len(fs[f].include) |-> Target(f, fs[f].include[i]).path]

Succ(f) ==
  IF IsConfig(f)
  THEN {Target(f, fs[f].include[i]).path :
          i \in {k \in 1..Len(fs[f].include) : Target(f, fs[f].include[k]).ok}}
  ELSE {}

RECURSIVE Closure(_)
Closure(S) ==
  LET T == S \cup UNION {Succ(f) : f \in S}
  IN  IF T = S THEN S ELSE Closure(T)

\* every document of S can be read and parsed and names only existing files
AllGood(S) ==
  \A f \in S :
    /\ IsConfig(f)
    /\ \A i \in 1..Len(fs[f].include) : Target(f, fs[f].include[i]).ok

Cyclic(S) == \E f \in S : f \in Closure(Succ(f))

\* the root document of the load: the first one read
Root == reads[1]
Reached == Closure({Root})

Count(x, seq) == Cardinality({i \in 1..Len(seq) : seq[i] = x})

RECURSIVE SumLen(_)
SumLen(S) ==
  IF S = {} THEN 0
  ELSE LET f == CHOOSE g \in S : TRUE
       IN  Len(fs[f].rules) + SumLen(S \ {f})

EachOnce ==
  /\ \A f \in Files : \A i \in 1..Len(fs[f].rules) :
       Count(fs[f].rules[i], raw_rules) = IF f \in Reached THEN 1 ELSE 0
  /\ Len(raw_rules) = SumLen(Reached)

LoadOver == pc \in {"loaded", "error"}

\* C1: whatever the include graph, cycles and self-includes included, the
\* load ends; when it returns a list, the list holds the own rules of every
\* document reachable from the root exactly once and nothing else; and it
\* returns an error only if a reachable document is missing, unreadable or
\* malformed: an include of a visited document is no error.
C1_LoadEndsEachOnce ==
  /\ [](pc = "loaded" => EachOnce)
  /\ [](pc = "error" => (reads = <<>> \/ ~AllGood(Reached)))
  /\ <>LoadOver

C1_Witness ==
  /\ pc = "loaded"
  /\ Cyclic(Reached)
  /\ Cardinality(loaded) >= 2
  /\ Len(raw_rules) >= 3

\* the traversal of the specification: the includes first, in order, then
\* the own rules; a document seen before contributes nothing
RECURSIVE Visit(_, _), VisitAll(_, _)
Visit(f, seen) ==
  IF f \in seen THEN [rules |-> <<>>, seen |-> seen]
  ELSE LET inc == VisitAll(Targets(f), seen \cup {f})
       IN  [rules |-> inc.rules \o fs[f].rules, seen |-> inc.seen]

VisitAll(fseq, seen) ==
  IF fseq = <<>> THEN [rules |-> <<>>, seen |-> seen]
  ELSE LET h == Visit(Head(fseq), seen)
           t == VisitAll(Tail(fseq), h.seen)
       IN  [rules |-> h.rules \o t.rules, seen |-> t.seen]

Positions(f) == {i \in 1..Len(raw_rules) : \E k \in 1..Len(fs[f].rules) : raw_rules[i] = fs[f].rules[k]}

\* C2: for an acyclic include graph the list returned is the depth-first
\* traversal, includes before own rules, a second visit contributing nothing;
\* so the rules of every document a document includes, directly or not, stand
\* before its own.
C2_DepthFirstOrder ==
  (pc = "loaded" /\ ~Cyclic(Reached)) =>
    /\ raw_rules = Visit(Root, {}).rules
    /\ \A x \in Reached : \A y \in Closure(Succ(x)) :
         \A i \in Positions(y), j \in Positions(x) : i < j

C2_Witness ==
  /\ pc = "loaded"
  /\ ~Cyclic(Reached)
  /\ \E y \in Reached : Cardinality({x \in Reached : y \in Succ(x)}) >= 2
  /\ Cardinality(Reached) = 3

\* ------------------------------------------------ rendering: C3, C4, C5, C8, C10

Rendered == pc = "rendered"

MatchesOf(line) == captures_iter(engine.regex, line)

\* the rule (0-based) whose group the loop of render_line finds for match m
Winner(m) == FirstGroup(m, 0, Len(raw_rules))

\* rule i (0-based) taken alone: its pattern parsed by itself, and whether it
\* matches the line at offset p
Alone(i) == Parse(RulePattern(raw_rules[i + 1]))
AloneAt(i, line, p) == M(Alone(i).node, line, p, NoCaps, engine.regex.ic)
CanMatch(i, line, p) == Alone(i).ok /\ AloneAt(i, line, p) # <<>>

CanMatchAt(line, p) == {i \in 0..(Len(raw_rules) - 1) : CanMatch(i, line, p)}

Min(S) == CHOOSE x \in S : \A y \in S : x <= y

EarliestWins(line, m) ==
  LET can == CanMatchAt(line, m.start)
      e == Min(can)
      end == AloneAt(e, line, m.start)[1].end
  IN  Cardinality(can) >= 2 =>
        /\ Winner(m) = e
        /\ m.end = end
        /\ Colored(engine, line, m)
             = <<to_ansi(raw_rules[e + 1].color)>> \o Slice(line, m.start, end) \o <<RESET>>

\* C3: when several rules can match at the offset where a match is taken, the
\* match and the color are those of the earliest of these rules, whatever a
\* later rule would match there.
C3_EarliestRuleWins ==
  Rendered =>
    \A k \in 1..Len(MatchesOf(line_buffer)) :
      EarliestWins(line_buffer, MatchesOf(line_buffer)[k])

NonOverlapping(ms) ==
  \A k \in 1..Len(ms) :
    /\ ms[k].start <= ms[k].end
    /\ k > 1 => ms[k - 1].end <= ms[k].start

RECURSIVE Spans(_, _, _, _)
Spans(line, ms, k, last) ==
  IF k > Len(ms) THEN Slice(line, last, Len(line))
  ELSE Slice(line, last, ms[k].start)
       \o <<to_ansi(raw_rules[Winner(ms[k]) + 1].color)>>
       \o Slice(line, ms[k].start, ms[k].end)
       \o <<RESET>>
       \o Spans(line, ms, k + 1, ms[k].end)

\* C4: the matches of a line do not overlap, and the output is, match after
\* match, the text since the previous match, the color of the rule that won
\* the match, the whole matched text and one reset, then the rest of the line.
C4_SpansInOrder ==
  Rendered =>
    IF raw_rules = <<>> THEN out_buffer = line_buffer
    ELSE LET ms == MatchesOf(line_buffer)
         IN  /\ NonOverlapping(ms)
             /\ \A k \in 1..Len(ms) : Winner(ms[k]) < Len(raw_rules)
             /\ out_buffer = Spans(line_buffer, ms, 1, 0)

NoMatchIn(line) ==
  \A p \in 0..Len(line) : M(engine.regex.ast, line, p, NoCaps, engine.regex.ic) = <<>>

\* C5: a line in which the combined pattern matches nowhere is left in the
\* buffer as it is, terminator included.
C5_PassThrough == (Rendered /\ NoMatchIn(line_buffer)) => out_buffer = line_buffer

C5_Witness ==
  /\ Rendered
  /\ NoMatchIn(line_buffer)
  /\ raw_rules # <<>>
  /\ Len(line_buffer) >= 2
  /\ Last(line_buffer) = "\n"
  /\ reused

\* C8: after any call the buffer holds what render_line puts into an empty
\* buffer for that line, whatever it held before; and the call leaves the
\* engine as it was.
C8_BufferIndependent ==
  /\ [](Rendered => out_buffer = render_line(engine, line_buffer, <<>>))
  /\ [][(pc \in {"compiled", "rendered"}) => (engine' = engine)]_vars

C8_Witness ==
  /\ Rendered
  /\ reused
  /\ out_buffer # <<>>
  /\ out_buffer # line_buffer

IsEscape(x) == x = RESET \/ \E i \in 1..Len(engine.ansi_colors) : x = engine.ansi_colors[i]

RECURSIVE Strip(_)
Strip(out) ==
  IF out = <<>> THEN <<>>
  ELSE (IF IsEscape(Head(out)) THEN <<>> ELSE <<Head(out)>>) \o Strip(Tail(out))

\* C10: the output without its color and reset escapes is the input line.
C10_NothingDropped == Rendered => Strip(out_buffer) = line_buffer

\* ------------------------------------------------------- process_stream: C6

IsPrefix(a, b) == Len(a) <= Len(b) /\ SubSeq(b, 1, Len(a)) = a

\* one line of input: not empty, no line feed before its last character
IsLine(l) == l # <<>> /\ \A i \in 1..(Len(l) - 1) : l[i] # "\n"

\* the number of lines of a text, the last one with or without its line feed
NumLines(text) ==
  Cardinality({i \in 1..Len(text) : text[i] = "\n"})
  + (IF text # <<>> /\ Last(text) # "\n" THEN 1 ELSE 0)

Streaming == pc \in {"streaming", "done"} \/ err \in {"read", "write", "flush"}

\* the lines read are whole lines of the input, each rendered by itself and
\* handed to the writer once, in order; the sink holds them all, or all but
\* the end of the one whose write failed
StreamInv ==
  Streaming =>
    /\ \A i \in 1..Len(lines) :
         /\ IsLine(lines[i])
         /\ Last(lines[i]) = "\n" \/ (i = Len(lines) /\ reader = <<>>)
    /\ Len(handed) = Len(lines)
    /\ \A i \in 1..Len(lines) : handed[i] = render_line(engine, lines[i], <<>>)
    /\ err # "write" => sink = Concat(handed)
    /\ err = "write" =>
         /\ pc = "error"
         /\ handed # <<>>
         /\ \E k \in 0..(Len(Last(handed)) - 1) :
              sink = Concat(SubSeq(handed, 1, Len(handed) - 1)) \o SubSeq(Last(handed), 1, k)
    /\ pc = "done" =>
         /\ err = ""
         /\ reader = <<>>
         /\ Len(lines) = NumLines(Concat(lines))

\* the lines read only grow, what was written stays, the input is consumed in
\* order, and an error ends the run
StreamStep ==
  /\ IsPrefix(lines, lines')
  /\ IsPrefix(sink, sink')
  /\ pc = "streaming" => Concat(lines') \o reader' = Concat(lines) \o reader
  /\ pc # "error"

\* C6: process_stream hands the writer the rendering of each input line, one
\* by one and in input order, a last line without terminator included; a read
\* or write failure ends the loop with what was written left in place; on
\* success every line of the input has been written.
C6_OneRenderedLinePerLine == []StreamInv /\ [][StreamStep]_vars

C6_Witness ==
  /\ pc = "done"
  /\ Len(lines) >= 2
  /\ Last(Last(lines)) # "\n"
  /\ sink # Concat(lines)

\* ------------------------------------------------------------------ run: C7

\* C7: a failure before streaming ends the run with nothing written and no
\* line read: without --config nothing is read at all; a document that cannot
\* be read or parsed fails the load, no rule list is returned and no engine is
\* built; an invalid combined pattern leaves no engine.  Past the load, every
\* document met was readable and well formed.
RunInv ==
  /\ (pc = "error" /\ err \in {"usage", "io", "parse", "compile", "open"}) =>
       sink = <<>> /\ handed = <<>> /\ lines = <<>> /\ reader = <<>>
  /\ (pc # "start" /\ ~cli_args.config.some) => (pc = "error" /\ err = "usage")
  /\ err = "usage" => (~cli_args.config.some /\ reads = <<>> /\ loaded = {})
  /\ err \in {"io", "parse"} => (raw_rules = <<>> /\ engine = NoEngine /\ stack = <<>>)
  /\ err = "compile" => (engine = NoEngine /\ ~new(raw_rules, cli_args.ignore_case).ok)
  /\ (pc \in {"loaded", "compiled", "streaming", "done"}
        \/ err \in {"compile", "open", "read", "write", "flush"}) => AllGood(loaded)
  /\ pc \in {"compiled", "streaming", "done"} => engine.ok
  /\ pc = "error" <=> err # ""

C7_EarlyFailuresWriteNothing == []RunInv /\ [][pc # "error"]_vars

C7_Witness ==
  /\ pc = "error"
  /\ err = "parse"
  /\ Len(reads) >= 3

\* ----------------------------------------------------------------------- C9

\* C9: where an own rule of a document and a rule of a document it includes
\* can both match at the offset of a match, the match is not colored by the
\* own rule.
IncludedBeforeOwn(line, m) ==
  \A x \in loaded : \A y \in Succ(x) \ {x} :
    \A i \in Positions(x), j \in Positions(y) :
      (CanMatch(i - 1, line, m.start) /\ CanMatch(j - 1, line, m.start))
        => Winner(m) + 1 \notin Positions(x)

C9_IncludedRuleWins ==
  pc \in {"streaming", "done"} =>
    \A n \in 1..Len(lines) : \A k \in 1..Len(MatchesOf(lines[n])) :
      IncludedBeforeOwn(lines[n], MatchesOf(lines[n])[k])

====
